---- MODULE Spec2Model ----
(***************************************************************************)
(* Windowed ingestion + aggregation pipeline of                            *)
(*   src/Past implementations/data_collection/energy/                      *)
(*       EIA_API_request_all_dates.py                                      *)
(*                                                                         *)
(* The SQLite database is modelled as two snapshots: `committed` (what is  *)
(* durable) and `working` (what the single connection sees, i.e. committed *)
(* plus the writes of the open transaction).  A table is a bag (multiset)  *)
(* of rows; the surrogate columns id and created_at are left out, every    *)
(* other column is kept.  REAL values are exact: a quotient is kept as the *)
(* pair <<numerator, denominator>>, SQL NULL in a REAL column is <<>>.     *)
(***************************************************************************)
EXTENDS Integers, Sequences, FiniteSets, Bags, TLC

\* ---------------------------------------------------------------- bounds
\* Entries one store_data call may be handed.
MaxBatch == 2
\* The same for the clients of Spec and SpecFault, whose history tells an
\* entry before a failing one from an entry after it.
MaxStoreBatch == 3
\* Calls of store_data / calculate_statistics in one run of a harness.
MaxCalls == 3
\* fetch_and_store_data_for_range: start_date is day 0..MaxStart of 2024 and
\* end_date lies at most MaxSpan days after it (and at most one day before).
MaxStart == 1
MaxSpan == 61
\* The demand download starts at most MaxDemandStart hours after
\* 2024-01-01T00 and spans at most MaxDemandSpan hours (two full 5-day
\* chunks and a part of a third).
MaxDemandStart == 1
MaxDemandSpan == 241
\* main works through the first MaxRegions regions of its list, over a range
\* of at most MaxMainSpan days (two full 30-day chunks and a part of a third).
MaxRegions == 2
MaxMainSpan == 61

\* ------------------------------------------------------------ SQL values
\* Python None / SQL NULL in a TEXT column.
NULL == "NULL"
\* SQL NULL in a REAL column.
NoReal == <<>>
\* A dict key the entry does not have (entry.get(k, default) yields default).
MISSING == "MISSING"

\* Mutant of Quot: a division by zero yields 0 in place of NULL.
QuotZeroAsZero(n, d) == IF d = 0 THEN <<0, 1>> ELSE <<n, d>>

\* The quotient n / d as SQLite computes it: NULL when the divisor is 0.
Quot(n, d) == IF d = 0 THEN NoReal ELSE <<n, d>>
\* Equality of a REAL column with the integer k.
RealIs(q, k) == q # NoReal /\ q[1] = k * q[2]

\* --------------------------------------------- upstream entries (inputs)
Regions == {"NE", "MISO"}
TrackedFuels == {"COL", "NG", "NUC", "SUN", "WND", "WAT"}
RenewableFuels == {"SUN", "WND", "WAT"}

TypeName(f) == IF f = NULL THEN "Unknown" ELSE f

Entry(p, r, f, v, u) ==
    [period |-> p, respondent |-> r, respondent_name |-> r, fueltype |-> f,
     type_name |-> TypeName(f), value |-> v, value_units |-> u]

\* The records the upstream API may deliver to the store_data harness:
\*   (T00, NE, SUN)   10 MWh or 20 kWh    same key, other value and units
\*   (T00, NE, COL)   70 MWh              a second key
\*   value "abc"                          float() raises ValueError
\*   no 'fueltype' key                    NOT NULL constraint fails
StoreEntries ==
    { Entry("2024-01-01T00:00", "NE", "SUN", "10", "MWh"),
      Entry("2024-01-01T00:00", "NE", "SUN", "20", "kWh"),
      Entry("2024-01-01T00:00", "NE", "COL", "70", "MWh"),
      Entry("2024-01-01T00:00", "NE", "SUN", "abc", "MWh"),
      Entry("2024-01-01T00:00", "NE", NULL, "10", "MWh") }

\* The records the upstream API may deliver to the aggregation harness:
\*   (T00, NE, SUN) 10, (T01, NE, SUN) 20   two hours of one date and category
\*   (T00, NE, COL)   -10                   a second tracked category, negative
\*   (T00, NE, OTH)   10                    a category that is not tracked
\*   (Jan 2, NE, COL) no 'value' key        second date; value defaults to 0
\*   (T05, NE, COL)   10                    period SQLite's date() rejects
\*   value "abc"                            float() raises ValueError
\*   no 'fueltype' key                      NOT NULL constraint fails
\* The second entity, MISO, has no records of its own.
AggEntries ==
    { Entry("2024-01-01T00:00", "NE", "SUN", "10", "MWh"),
      Entry("2024-01-01T01:00", "NE", "SUN", "20", "MWh"),
      Entry("2024-01-01T00:00", "NE", "COL", "-10", "MWh"),
      Entry("2024-01-01T00:00", "NE", "OTH", "10", "MWh"),
      Entry("2024-01-02T00:00", "NE", "COL", MISSING, "MWh"),
      Entry("2024-01-01T05", "NE", "COL", "10", "MWh"),
      Entry("2024-01-01T00:00", "NE", "SUN", "abc", "MWh"),
      Entry("2024-01-01T00:00", "NE", NULL, "10", "MWh") }

\* The records of the scenario SUN = 10, WND = 20, COL = 70 for NE on
\* 2024-01-01, and records beside it: another hour of that date, another
\* date, another entity, and the two entries that cannot be stored.
ScenarioEntries ==
    { Entry("2024-01-01T00:00", "NE", "SUN", "10", "MWh"),
      Entry("2024-01-01T00:00", "NE", "WND", "20", "MWh"),
      Entry("2024-01-01T00:00", "NE", "COL", "70", "MWh"),
      Entry("2024-01-01T01:00", "NE", "SUN", "20", "MWh"),
      Entry("2024-01-02T00:00", "NE", "COL", MISSING, "MWh"),
      Entry("2024-01-01T00:00", "MISO", "SUN", "10", "MWh"),
      Entry("2024-01-01T00:00", "NE", "SUN", "abc", "MWh"),
      Entry("2024-01-01T00:00", "NE", NULL, "10", "MWh") }

\* The records the upstream API may deliver to fetch_and_store_data_for_range.
PlanEntries ==
    { Entry("2024-01-01T00:00", "NE", "SUN", "10", "MWh"),
      Entry("2024-01-01T00:00", "NE", "SUN", "abc", "MWh"),
      Entry("2024-01-01T00:00", "NE", NULL, "10", "MWh") }

\* The records the upstream API may deliver to main for region r: a storable
\* one, the same key with another value, a value float() rejects, a record
\* without 'fueltype'.
MainEntries(r) ==
    { Entry("2024-01-01T00:00", r, "SUN", "10", "MWh"),
      Entry("2024-01-01T00:00", r, "SUN", "20", "MWh"),
      Entry("2024-01-01T00:00", r, "SUN", "abc", "MWh"),
      Entry("2024-01-01T00:00", r, NULL, "10", "MWh") }

\* ---------------------------------------------------------- conversions
\* Python float() on the JSON value: the texts it parses, and their value.
FloatTable == ("10" :> 10) @@ ("20" :> 20) @@ ("70" :> 70) @@ ("-10" :> -10) @@ ("0" :> 0)

\* float(entry.get('value', 0)) raises ValueError (or TypeError) on any other text.
FloatRaises(e) == e.value # MISSING /\ e.value \notin DOMAIN FloatTable

FloatValue(e) == IF e.value = MISSING THEN 0 ELSE FloatTable[e.value]

\* SQLite date(period): the calendar date of an ISO-8601 time string, NULL
\* for a text that is none of the accepted forms ("YYYY-MM-DDTHH" is none).
DateOf(p) ==
    CASE p = "2024-01-01T00:00" -> "2024-01-01"
      [] p = "2024-01-01T01:00" -> "2024-01-01"
      [] p = "2024-01-02T00:00" -> "2024-01-02"
      [] OTHER -> NULL

\* Mutant of DaysInMonth: a February of 28 days.
DaysInMonthCommon == <<31, 28, 31, 30, 31, 30, 31, 31, 30, 31, 30, 31>>

\* A datetime at midnight is the number of days since 2024-01-01; a date
\* text 'YYYY-MM-DD' is <<year, month, day>>.  Dates of 2024 only.
DaysInMonth == <<31, 29, 31, 30, 31, 30, 31, 31, 30, 31, 30, 31>>

RECURSIVE DaysBefore(_)
DaysBefore(m) == IF m = 1 THEN 0 ELSE DaysBefore(m - 1) + DaysInMonth[m - 1]

\* datetime.strptime(text, '%Y-%m-%d')
Strptime(text) == DaysBefore(text[2]) + text[3] - 1

\* datetime.strftime('%Y-%m-%d')
Strftime(day) ==
    LET m == CHOOSE k \in 1..12 : DaysBefore(k) <= day /\ day < DaysBefore(k) + DaysInMonth[k]
    IN  <<2024, m, day - DaysBefore(m) + 1>>

\* timedelta(days=30)
WindowDays == 30

\* ------------------------------------------------------------- tables
EmptyDb == [raw |-> EmptyBag, daily |-> EmptyBag, regional |-> EmptyBag]

\* The rows of a table, each once.
Rows(table) == BagToSet(table)

\* UNIQUE(period, respondent, fuel_type) of EnergyProduction.
RawKey(r) == <<r.period, r.respondent, r.fuel_type>>
\* UNIQUE(date, respondent, fuel_type) of DailyGeneration.
DailyKey(r) == <<r.date, r.respondent, r.fuel_type>>
\* UNIQUE(respondent, date) of RegionalStats.
RegionalKey(r) == <<r.respondent, r.date>>

\* The VALUES tuple store_data builds from an entry.
RawRow(e) ==
    [period |-> e.period, respondent |-> e.respondent,
     respondent_name |-> e.respondent_name, fuel_type |-> e.fueltype,
     type_name |-> e.type_name, value |-> FloatValue(e), units |-> e.value_units]

\* The NOT NULL columns of EnergyProduction (value is a float, never NULL here).
RawNotNull(r) ==
    /\ r.period # NULL
    /\ r.respondent # NULL
    /\ r.fuel_type # NULL
    /\ r.type_name # NULL

\* Mutant of RawUpsert: a plain INSERT into a table without the UNIQUE key.
RawInsertPlain(table, row) == table (+) SetToBag({row})

\* Mutant of RawUpsert: INSERT OR IGNORE, the row already there is kept.
RawInsertIgnore(table, row) ==
    IF \E x \in DOMAIN table : RawKey(x) = RawKey(row)
    THEN table
    ELSE table (+) SetToBag({row})

\* INSERT OR REPLACE of one row: the rows in conflict on the UNIQUE key are
\* deleted, then the row is inserted.
RawUpsert(table, row) ==
    LET keep == {x \in DOMAIN table : RawKey(x) # RawKey(row)}
    IN  [x \in keep |-> table[x]] (+) SetToBag({row})

\* Mutant of DailyUpsert: a plain INSERT, the row of an earlier run stays.
DailyInsertPlain(table, row) == table (+) SetToBag({row})

DailyUpsert(table, row) ==
    LET keep == {x \in DOMAIN table : DailyKey(x) # DailyKey(row)}
    IN  [x \in keep |-> table[x]] (+) SetToBag({row})

RegionalUpsert(table, row) ==
    LET keep == {x \in DOMAIN table : RegionalKey(x) # RegionalKey(row)}
    IN  [x \in keep |-> table[x]] (+) SetToBag({row})

\* INSERT OR REPLACE ... SELECT: every selected row is upserted.
RECURSIVE DailyInsertAll(_, _)
DailyInsertAll(table, rows) ==
    IF rows = {} THEN table
    ELSE LET r == CHOOSE x \in rows : TRUE
         IN  DailyInsertAll(DailyUpsert(table, r), rows \ {r})

\* Mutant of RegionalInsertAll: the table is emptied before the insert.
RegionalReplaceAll(table, rows) == SetToBag(rows)

RECURSIVE RegionalInsertAll(_, _)
RegionalInsertAll(table, rows) ==
    IF rows = {} THEN table
    ELSE LET r == CHOOSE x \in rows : TRUE
         IN  RegionalInsertAll(RegionalUpsert(table, r), rows \ {r})

\* ------------------------------------------------------ SQL aggregates
\* SUM(value), COUNT(*) and MAX(value) over the rows S of the table raw
\* (a row the table holds k times counts k times).
RECURSIVE SumValue(_, _)
SumValue(S, raw) ==
    IF S = {} THEN 0
    ELSE LET r == CHOOSE x \in S : TRUE
         IN  r.value * raw[r] + SumValue(S \ {r}, raw)

RECURSIVE CountRows(_, _)
CountRows(S, raw) ==
    IF S = {} THEN 0
    ELSE LET r == CHOOSE x \in S : TRUE
         IN  raw[r] + CountRows(S \ {r}, raw)

\* Mutant of MaxValue: MIN(value) in its place.
MinValue(S) == CHOOSE m \in {r.value : r \in S} : \A r \in S : m <= r.value

MaxValue(S) == CHOOSE m \in {r.value : r \in S} : \A r \in S : r.value <= m

\* Mutant of SumWhen: the CASE WHEN filter is dropped.
SumWhenAll(S, raw, fuels) == SumValue(S, raw)

\* SUM(CASE WHEN fuel_type IN fuels THEN value ELSE 0 END)
SumWhen(S, raw, fuels) == SumValue({r \in S : r.fuel_type \in fuels}, raw)

\* FROM EnergyProduction WHERE respondent = ?
OfRespondent(raw, region) == {r \in Rows(raw) : r.respondent = region}

\* The SELECT of the DailyGeneration statement:
\* GROUP BY date(period), respondent, fuel_type.
DailySelect(raw, region) ==
    LET src == OfRespondent(raw, region)
        groups == {<<DateOf(r.period), r.respondent, r.fuel_type>> : r \in src}
        Members(g) == {r \in src : <<DateOf(r.period), r.respondent, r.fuel_type>> = g}
    IN  { [date |-> g[1], respondent |-> g[2], fuel_type |-> g[3],
           total_mwh |-> SumValue(Members(g), raw),
           peak_mwh |-> MaxValue(Members(g)),
           average_mwh |-> Quot(SumValue(Members(g), raw), CountRows(Members(g), raw))]
          : g \in groups }

\* Mutant of Percentage: the factor 100 is forgotten.
PercentageOfOne(gen, total) == Quot(gen, total)

\* (x_gen / total_gen * 100)
Percentage(gen, total) == Quot(gen * 100, total)

\* The SELECT of the RegionalStats statement: the CTE daily_totals,
\* GROUP BY date(period), respondent, and the percentages over it.
RegionalSelect(raw, region) ==
    LET src == OfRespondent(raw, region)
        groups == {<<DateOf(r.period), r.respondent>> : r \in src}
        Members(g) == {r \in src : <<DateOf(r.period), r.respondent>> = g}
        Total(g) == SumValue(Members(g), raw)
    IN  { [respondent |-> g[2], date |-> g[1],
           total_generation_mwh |-> Total(g),
           renewable_percentage |-> Percentage(SumWhen(Members(g), raw, RenewableFuels), Total(g)),
           peak_hour_mwh |-> MaxValue(Members(g)),
           average_hourly_mwh |-> Quot(Total(g), CountRows(Members(g), raw)),
           coal_percentage |-> Percentage(SumWhen(Members(g), raw, {"COL"}), Total(g)),
           gas_percentage |-> Percentage(SumWhen(Members(g), raw, {"NG"}), Total(g)),
           nuclear_percentage |-> Percentage(SumWhen(Members(g), raw, {"NUC"}), Total(g)),
           solar_percentage |-> Percentage(SumWhen(Members(g), raw, {"SUN"}), Total(g)),
           wind_percentage |-> Percentage(SumWhen(Members(g), raw, {"WND"}), Total(g)),
           hydro_percentage |-> Percentage(SumWhen(Members(g), raw, {"WAT"}), Total(g))]
          : g \in groups }

\* date TEXT NOT NULL of DailyGeneration and of RegionalStats: a selected row
\* whose date(period) is NULL fails the statement (sqlite3.IntegrityError).
DateNotNull(rows) == \A r \in rows : r.date # NULL

\* Storage faults of the environment (disk, lock): the statement of
\* calculate_statistics at which sqlite3 raises, or "none".
AggFaults == {"none", "daily", "regional", "commit"}

\* Mutant of CalculateStatistics: the handler does not roll back, what the
\* statements wrote before the failure stays on the connection.
CalculateStatisticsNoRollback(c, w, region, fault) ==
    LET dailyRows == DailySelect(w.raw, region)
        dailyOk == fault # "daily" /\ DateNotNull(dailyRows)
        w1 == [w EXCEPT !.daily = DailyInsertAll(@, dailyRows)]
        regionalRows == RegionalSelect(w1.raw, region)
        regionalOk == fault # "regional" /\ DateNotNull(regionalRows)
        w2 == [w1 EXCEPT !.regional = RegionalInsertAll(@, regionalRows)]
    IN  IF dailyOk /\ regionalOk /\ fault # "commit"
        THEN [committed |-> w2, working |-> w2, outcome |-> "committed"]
        ELSE [committed |-> c, working |-> IF ~dailyOk THEN w ELSE IF ~regionalOk THEN w1 ELSE w2,
              outcome |-> "rolled_back"]

\* calculate_statistics(db_conn, region) on the connection state <<c, w>>:
\* both statements, then commit; any exception rolls the transaction back.
CalculateStatistics(c, w, region, fault) ==
    LET dailyRows == DailySelect(w.raw, region)
        dailyOk == fault # "daily" /\ DateNotNull(dailyRows)
        w1 == [w EXCEPT !.daily = DailyInsertAll(@, dailyRows)]
        regionalRows == RegionalSelect(w1.raw, region)
        regionalOk == fault # "regional" /\ DateNotNull(regionalRows)
        w2 == [w1 EXCEPT !.regional = RegionalInsertAll(@, regionalRows)]
    IN  IF dailyOk /\ regionalOk /\ fault # "commit"
        THEN [committed |-> w2, working |-> w2, outcome |-> "committed"]
        ELSE [committed |-> c, working |-> c, outcome |-> "rolled_back"]

\* --------------------------------------------------------------- state
VARIABLES
    committed,          \* the database as committed: [raw, daily, regional]
    working,            \* the database as the connection sees it
    pc,                 \* "idle", or "store" inside store_data's for loop
    region,             \* the region argument of the running or last call
    stored_count,       \* store_data's stored_count
    taken,              \* entries of data the for loop has taken so far
    ret,                \* what the last store_data returned: "True", "False", "none"
    outcome,            \* how the last calculate_statistics ended, "none" if not run
    lastOp,             \* the last call completed: "init", "store", "agg"
    calls,              \* calls of store_data and calculate_statistics so far
    ppc,                \* fetch_and_store_data_for_range: "loop", "store", "done", "raised"; "none" outside it
    args,               \* its arguments: [region, start_date, end_date]
    current_start_date, \* its local current_start_date
    current_end_date,   \* its local current_end_date
    requests,           \* the requests get_energy_production_data has issued
    fetch,              \* how the last request ended
    mpc,                \* the program: "import", "fatal", then main: "main", "init", "run", "done", "aborted"; "none" outside it
    region_index,       \* main: position of the for loop in its list of regions
    EIA_API_KEY,        \* os.getenv('EIA_API_KEY'): a key, "" or NULL
    conn,               \* DatabaseConnection.conn: NULL (None), "open", "closed"
    tables,             \* the tables of the database file exist
    dpc,                \* fetch_and_save_eia_demand_data: "start", "loop", "done", "failed"; "none" outside it
    dargs,              \* its arguments: [region, start_time, end_time]
    current_time,       \* its local current_time
    next_time,          \* its local next_time
    all_data,           \* its local all_data: the chunks that delivered records
    drequests,          \* the requests it has issued
    dfetch,             \* how its last request ended
    run,                \* the pipeline run over one range: 1, 2; 0 outside a repeated run
    script,             \* what the API delivered in run 1, chunk by chunk: the entries taken
    firstRun,           \* the database as committed when run 1 ended
    expect,             \* history: key -> row of the last storable entry of the call
    replaced,           \* history: keys the call overwrote with another value
    skipped,            \* history: entries of the call skipped on sqlite3.Error
    unprocessed,        \* history: entries left when the for loop was abandoned
    rawKept,            \* history: the last calculate_statistics left working.raw as it was
    rerun,              \* history: the last calculate_statistics repeated the call before it
    prevFetch,          \* history: how the request before the last one ended
    rawAtBegin,         \* history: EnergyProduction as committed when the call was entered
    txFailed            \* history: the call's own commit raised

dbVars == <<committed, working>>
callVars == <<pc, region, stored_count, taken, ret, outcome, lastOp, calls>>
planVars == <<ppc, args, current_start_date, current_end_date, requests, fetch>>
mainVars == <<mpc, region_index, EIA_API_KEY, conn, tables>>
demandVars == <<dpc, dargs, current_time, next_time, all_data, drequests, dfetch>>
replayVars == <<run, script, firstRun>>
elseVars == <<mainVars, demandVars, replayVars>>
histVars == <<expect, replaced, skipped, unprocessed, rawKept, rerun,
              prevFetch, rawAtBegin, txFailed>>
vars == <<committed, working, pc, region, stored_count, taken, ret, outcome,
          lastOp, calls, ppc, args, current_start_date, current_end_date,
          requests, fetch, mpc, region_index, EIA_API_KEY, conn, tables, dpc, dargs, current_time,
          next_time, all_data, drequests, dfetch, run, script, firstRun, expect, replaced, skipped, unprocessed, rawKept, rerun,
          prevFetch, rawAtBegin, txFailed>>

NoRows == <<>>

\* After DatabaseConnection.__enter__ and initialize_database: empty tables,
\* nothing called yet.
InitDb ==
    /\ committed = EmptyDb
    /\ working = EmptyDb
    /\ pc = "idle"
    /\ region = "none"
    /\ stored_count = 0
    /\ taken = 0
    /\ ret = "none"
    /\ outcome = "none"
    /\ lastOp = "init"
    /\ calls = 0
    /\ expect = NoRows
    /\ replaced = {}
    /\ skipped = 0
    /\ unprocessed = 0
    /\ rawKept = TRUE
    /\ rerun = FALSE
    /\ prevFetch = "none"
    /\ rawAtBegin = EmptyBag
    /\ txFailed = FALSE

\* Neither main nor fetch_and_save_eia_demand_data is running.
InitElse ==
    /\ mpc = "none"
    /\ region_index = 0
    /\ EIA_API_KEY = "key"
    /\ conn = NULL
    /\ tables = TRUE
    /\ dpc = "none"
    /\ dargs = [region |-> "none", start_time |-> <<2024, 1, 1, 0>>, end_time |-> <<2024, 1, 1, 0>>]
    /\ current_time = 0
    /\ next_time = 0
    /\ all_data = <<>>
    /\ drequests = <<>>
    /\ dfetch = "none"
    /\ run = 0
    /\ script = <<>>
    /\ firstRun = EmptyDb

Init ==
    /\ InitDb
    /\ InitElse
    /\ ppc = "none"
    /\ args = [region |-> "none", start_date |-> Strftime(0), end_date |-> Strftime(0)]
    /\ current_start_date = 0
    /\ current_end_date = 0
    /\ requests = <<>>
    /\ fetch = "none"

\* ------------------------------------------------------------ store_data
\* store_data(db_conn, data, r) is entered: stored_count = 0.
StoreBegin(r) ==
    /\ pc = "idle"
    /\ pc' = "store"
    /\ region' = r
    /\ stored_count' = 0
    /\ taken' = 0
    /\ ret' = "none"
    /\ outcome' = "none"
    /\ calls' = calls + 1
    /\ UNCHANGED <<committed, working, lastOp>>

\* The for loop takes entry e and float() raises: the exception leaves the
\* loop and reaches the outer handler, which returns False.  Neither commit
\* nor rollback runs.
StoreEntryRaises(e) ==
    /\ pc = "store"
    /\ FloatRaises(e)
    /\ pc' = "idle"
    /\ taken' = taken + 1
    /\ ret' = "False"
    /\ lastOp' = "store"
    /\ UNCHANGED <<committed, working, region, stored_count, outcome, calls>>

\* The for loop takes entry e and the INSERT OR REPLACE raises sqlite3.Error
\* (a NOT NULL column is NULL): logged, continue.
StoreEntrySkipped(e) ==
    /\ pc = "store"
    /\ ~FloatRaises(e)
    /\ ~RawNotNull(RawRow(e))
    /\ taken' = taken + 1
    /\ UNCHANGED <<committed, working, pc, region, stored_count, ret, outcome,
                   lastOp, calls>>

\* The for loop takes entry e and the INSERT OR REPLACE succeeds.
StoreEntryStored(e) ==
    /\ pc = "store"
    /\ ~FloatRaises(e)
    /\ RawNotNull(RawRow(e))
    /\ working' = [working EXCEPT !.raw = RawUpsert(@, RawRow(e))]
    /\ stored_count' = stored_count + 1
    /\ taken' = taken + 1
    /\ UNCHANGED <<committed, pc, region, ret, outcome, lastOp, calls>>

\* Mutant of StoreFinish: calculate_statistics runs whatever stored_count is.
StoreFinishUngated ==
    /\ pc = "store"
    /\ LET after == CalculateStatistics(working, working, region, "none")
       IN  /\ committed' = after.committed
           /\ working' = after.working
           /\ outcome' = after.outcome
    /\ pc' = "idle"
    /\ ret' = "True"
    /\ lastOp' = "store"
    /\ UNCHANGED <<region, stored_count, taken, calls>>

\* data is exhausted: commit, then calculate_statistics if stored_count > 0
\* (sqlite3 raising in it at `fault`), return True.
StoreFinishWith(fault) ==
    /\ pc = "store"
    /\ LET after == IF stored_count > 0
                    THEN CalculateStatistics(working, working, region, fault)
                    ELSE [committed |-> working, working |-> working, outcome |-> "none"]
       IN  /\ committed' = after.committed
           /\ working' = after.working
           /\ outcome' = after.outcome
    /\ pc' = "idle"
    /\ ret' = "True"
    /\ lastOp' = "store"
    /\ UNCHANGED <<region, stored_count, taken, calls>>

\* The same with a storage layer that does not fail.
StoreFinish == StoreFinishWith("none")

\* data is exhausted and db_conn.conn.commit() raises: the outer handler
\* returns False; nothing is committed, nothing is rolled back.
StoreCommitRaises ==
    /\ pc = "store"
    /\ pc' = "idle"
    /\ ret' = "False"
    /\ lastOp' = "store"
    /\ UNCHANGED <<committed, working, region, stored_count, taken, outcome, calls>>

\* ---------------------------------------------------- calculate_statistics
\* calculate_statistics(db_conn, r) called on its own.
AggregateWith(r, fault) ==
    /\ pc = "idle"
    /\ LET after == CalculateStatistics(committed, working, r, fault)
       IN  /\ committed' = after.committed
           /\ working' = after.working
           /\ outcome' = after.outcome
    /\ region' = r
    /\ lastOp' = "agg"
    /\ calls' = calls + 1
    /\ UNCHANGED <<pc, stored_count, taken, ret>>

\* The same with a storage layer that does not fail.
Aggregate(r) == AggregateWith(r, "none")

\* ------------------------------------------ fetch_and_store_data_for_range
Min(a, b) == IF a <= b THEN a ELSE b

\* Mutant of ChunkEnd: the cut back to end_date is forgotten.
ChunkEndUncut(start, end) == start + WindowDays

\* current_end_date: 30 days on, cut back to end_date when it exceeds it.
ChunkEnd(start, end) == Min(start + WindowDays, end)

\* Mutant of WhileCondition: the loop runs until the dates are equal.
WhileNotEqual(current, end) == current # end

\* while current_start_date < end_date
WhileCondition(current, end) == current < end

\* How a request of get_energy_production_data can end: a status other than
\* 200, an exception of requests.get or response.json(), a body without
\* ['response']['data'], an empty record list, a list of records.
FetchResults == {"status", "exception", "malformed", "empty", "data"}

\* Mutant of GetEnergyProductionData: a status other than 200 raises to the
\* caller (raise_for_status outside the try).
GetRaisingForStatus(result) ==
    CASE result = "status" -> [gets |-> 1, returns |-> "raise"]
      [] result = "data" -> [gets |-> 1, returns |-> "records"]
      [] OTHER -> [gets |-> 1, returns |-> "empty"]

\* Mutant of GetEnergyProductionData: the KeyError of a body without
\* ['response']['data'] is not caught.
GetRaisingKeyError(result) ==
    CASE result = "malformed" -> [gets |-> 1, returns |-> "raise"]
      [] result = "data" -> [gets |-> 1, returns |-> "records"]
      [] OTHER -> [gets |-> 1, returns |-> "empty"]

\* Mutant of GetEnergyProductionData: store_data is called for every chunk,
\* with or without records.
GetAlwaysStoring(result) == [gets |-> 1, returns |-> "records"]

\* get_energy_production_data when its request ends as `result`: how many
\* times requests.get is called, and what the caller gets: "records" (a
\* non-empty list), "empty" (the empty list) or "raise" (an exception).
\*   exception  requests.get or response.json() raises: caught, return []
\*   status     status_code != 200: return []
\*   malformed  data['response']['data'] raises KeyError: caught, return []
\*   empty      records is []
\*   data       records is a list of entries
GetEnergyProductionData(result) ==
    CASE result = "exception" -> [gets |-> 1, returns |-> "empty"]
      [] result = "status" -> [gets |-> 1, returns |-> "empty"]
      [] result = "malformed" -> [gets |-> 1, returns |-> "empty"]
      [] result = "empty" -> [gets |-> 1, returns |-> "empty"]
      [] result = "data" -> [gets |-> 1, returns |-> "records"]

\* One pass of the while loop up to the call of store_data: the chunk is
\* cut, the request is issued and ends as `result`.  Without data the pass
\* ends here and current_start_date moves on; with data store_data is
\* entered.  An exception of the fetcher would leave the function.
ChunkFetch(result) ==
    /\ ppc = "loop"
    /\ WhileCondition(current_start_date, Strptime(args.end_date))
    /\ LET end == ChunkEnd(current_start_date, Strptime(args.end_date))
           got == GetEnergyProductionData(result)
           request == [region |-> args.region,
                       start |-> Strftime(current_start_date), end |-> Strftime(end)]
       IN  /\ current_end_date' = end
           /\ requests' = requests \o [i \in 1..got.gets |-> request]
           /\ fetch' = result
           /\ CASE got.returns = "records" ->
                     /\ StoreBegin(args.region)
                     /\ ppc' = "store"
                     /\ UNCHANGED current_start_date
                [] got.returns = "empty" ->
                     /\ current_start_date' = end
                     /\ UNCHANGED <<dbVars, callVars, ppc>>
                [] got.returns = "raise" ->
                     /\ ppc' = "raised"
                     /\ UNCHANGED <<dbVars, callVars, current_start_date>>
    /\ UNCHANGED args

\* Mutant of ChunkAdvance: a store_data that returned False ends the loop.
ChunkAdvanceStopOnFalse ==
    /\ ppc = "store"
    /\ IF ret' = "False"
       THEN ppc' = "done" /\ UNCHANGED current_start_date
       ELSE ppc' = "loop" /\ current_start_date' = current_end_date
    /\ UNCHANGED <<args, current_end_date, requests, fetch>>

\* store_data has returned: current_start_date = current_end_date.
ChunkAdvance ==
    /\ ppc = "store"
    /\ ppc' = "loop"
    /\ current_start_date' = current_end_date
    /\ UNCHANGED <<args, current_end_date, requests, fetch>>

\* The while condition fails: the function returns.
RangeReturn ==
    /\ ppc = "loop"
    /\ ~WhileCondition(current_start_date, Strptime(args.end_date))
    /\ ppc' = "done"
    /\ UNCHANGED <<dbVars, callVars, args, current_start_date, current_end_date,
                   requests, fetch>>

\* ------------------------------------------------------ history variables
\* What the call's data asks for, kept beside the program's own state.
HistBegin ==
    /\ expect' = NoRows
    /\ replaced' = {}
    /\ skipped' = 0
    /\ unprocessed' = 0
    /\ rawAtBegin' = committed.raw
    /\ txFailed' = FALSE
    /\ UNCHANGED <<rawKept, rerun, prevFetch>>

\* `rest` entries of data follow the entry that raised.
HistRaises(rest) ==
    /\ rest \in 0..(MaxStoreBatch - taken - 1)
    /\ unprocessed' = rest
    /\ UNCHANGED <<expect, replaced, skipped, rawKept, rerun, prevFetch, rawAtBegin, txFailed>>

HistSkipped ==
    /\ skipped' = skipped + 1
    /\ UNCHANGED <<expect, replaced, unprocessed, rawKept, rerun, prevFetch, rawAtBegin, txFailed>>

HistStored(e) ==
    /\ expect' = (RawKey(RawRow(e)) :> RawRow(e)) @@ expect
    /\ replaced' = IF \E x \in Rows(working.raw) :
                        RawKey(x) = RawKey(RawRow(e)) /\ x.value # FloatValue(e)
                   THEN replaced \cup {RawKey(RawRow(e))}
                   ELSE replaced
    /\ UNCHANGED <<skipped, unprocessed, rawKept, rerun, prevFetch, rawAtBegin, txFailed>>

\* rerun: the call before this one was calculate_statistics for the same
\* region, and it left the EnergyProduction rows the connection sees as
\* they were (it did not roll pending rows back), so this call reads the
\* rows that one read.
HistAggregate ==
    /\ rawKept' = (working'.raw = working.raw)
    /\ rerun' = (lastOp = "agg" /\ region' = region /\ rawKept)
    /\ UNCHANGED <<expect, replaced, skipped, unprocessed, prevFetch, rawAtBegin, txFailed>>

HistCommitRaises ==
    /\ txFailed' = TRUE
    /\ UNCHANGED <<expect, replaced, skipped, unprocessed, rawKept, rerun, prevFetch, rawAtBegin>>

\* A request is issued: the result of the one before it is kept.
HistFetch ==
    /\ prevFetch' = fetch
    /\ UNCHANGED <<expect, replaced, skipped, unprocessed, rawKept, rerun, rawAtBegin, txFailed>>

\* ------------------------------------------------------- specifications
\* Any client of store_data and calculate_statistics, entries from
\* StoreEntries, with the history of each store_data call.
Next ==
    \/ \E r \in Regions : calls < MaxCalls /\ StoreBegin(r) /\ HistBegin /\ UNCHANGED <<planVars, elseVars>>
    \/ \E e \in StoreEntries, rest \in 0..MaxStoreBatch :
          taken < MaxStoreBatch /\ StoreEntryRaises(e) /\ HistRaises(rest) /\ UNCHANGED <<planVars, elseVars>>
    \/ \E e \in StoreEntries :
          taken < MaxStoreBatch /\ StoreEntrySkipped(e) /\ HistSkipped /\ UNCHANGED <<planVars, elseVars>>
    \/ \E e \in StoreEntries :
          taken < MaxStoreBatch /\ StoreEntryStored(e) /\ HistStored(e) /\ UNCHANGED <<planVars, elseVars>>
    \/ StoreFinish /\ UNCHANGED <<histVars, planVars, elseVars>>
    \/ \E r \in Regions : calls < MaxCalls /\ Aggregate(r) /\ HistAggregate /\ UNCHANGED <<planVars, elseVars>>

Spec == Init /\ [][Next]_vars

\* The same clients on a storage layer that can fail: the commit of
\* store_data can raise, and so can each statement and the commit of
\* calculate_statistics.
NextFault ==
    \/ Next
    \/ StoreCommitRaises /\ HistCommitRaises /\ UNCHANGED <<planVars, elseVars>>
    \/ \E fault \in AggFaults \ {"none"} :
          StoreFinishWith(fault) /\ UNCHANGED <<histVars, planVars, elseVars>>
    \/ \E r \in Regions, fault \in AggFaults \ {"none"} :
          calls < MaxCalls /\ AggregateWith(r, fault) /\ HistAggregate /\ UNCHANGED <<planVars, elseVars>>

SpecFault == Init /\ [][NextFault]_vars

\* Any client of store_data and calculate_statistics, entries from U.
Harness(U) ==
    \/ \E r \in Regions : calls < MaxCalls /\ StoreBegin(r) /\ UNCHANGED <<histVars, planVars, elseVars>>
    \/ \E e \in U : taken < MaxBatch /\ StoreEntryRaises(e) /\ UNCHANGED <<histVars, planVars, elseVars>>
    \/ \E e \in U : taken < MaxBatch /\ StoreEntrySkipped(e) /\ UNCHANGED <<histVars, planVars, elseVars>>
    \/ \E e \in U : taken < MaxBatch /\ StoreEntryStored(e) /\ UNCHANGED <<histVars, planVars, elseVars>>
    \/ StoreFinish /\ UNCHANGED <<histVars, planVars, elseVars>>
    \/ \E r \in Regions : calls < MaxCalls /\ Aggregate(r) /\ HistAggregate /\ UNCHANGED <<planVars, elseVars>>

NextAgg == Harness(AggEntries)

SpecAgg == Init /\ [][NextAgg]_vars

NextScenario == Harness(ScenarioEntries)

SpecScenario == Init /\ [][NextScenario]_vars

\* One call of fetch_and_store_data_for_range(region, start_date, end_date, db)
\* on a fresh database, for any region and any start_date and end_date within
\* the bounds; the API delivers entries from PlanEntries.
InitPlan ==
    /\ InitDb
    /\ InitElse
    /\ ppc = "loop"
    /\ \E r \in Regions, s \in 0..MaxStart :
         \E e \in {d \in (s - 1)..(s + MaxSpan) : d >= 0} :
            /\ args = [region |-> r, start_date |-> Strftime(s), end_date |-> Strftime(e)]
            /\ current_start_date = Strptime(Strftime(s))
    /\ current_end_date = 0
    /\ requests = <<>>
    /\ fetch = "none"

\* The steps of fetch_and_store_data_for_range when the API delivers
\* entries from U (a list of records is never empty when store_data is
\* entered).
RangeSteps(U) ==
    \/ \E result \in FetchResults : ChunkFetch(result) /\ HistFetch /\ UNCHANGED elseVars
    \/ \E e \in U :
          /\ ppc = "store" /\ taken < MaxBatch
          /\ StoreEntryStored(e) /\ UNCHANGED <<histVars, planVars, elseVars>>
    \/ \E e \in U :
          /\ ppc = "store" /\ taken < MaxBatch
          /\ StoreEntrySkipped(e) /\ UNCHANGED <<histVars, planVars, elseVars>>
    \/ \E e \in U :
          /\ ppc = "store" /\ taken < MaxBatch
          /\ StoreEntryRaises(e) /\ ChunkAdvance /\ UNCHANGED <<histVars, elseVars>>
    \/ taken > 0 /\ StoreFinish /\ ChunkAdvance /\ UNCHANGED <<histVars, elseVars>>
    \/ RangeReturn /\ UNCHANGED <<histVars, elseVars>>

NextPlan == RangeSteps(PlanEntries)

SpecPlan == InitPlan /\ [][NextPlan]_vars

\* ------------------------------------------------------------------ main
\* regions, as far as the run goes through them.
MainRegionList == <<"CAISO", "MISO", "NYISO", "PJM", "ERCOT">>

MainRegions == SubSeq(MainRegionList, 1, Min(MaxRegions, Len(MainRegionList)))

\* start_date = end_date - timedelta(days=365), as far as the run is followed.
MainSpanDays == Min(365, MaxMainSpan)

\* The date texts main passes on; the run is placed so that the range is
\* 2024-01-01 .. 2024-12-31 when it is followed in full.
MainStartDate == Strftime(0)

MainEndDate == Strftime(MainSpanDays)

\* Mutant of MainNextRegion: the next region is started while the loop of
\* the one before is still between two chunks.
MainNextRegionEarly ==
    /\ mpc = "run"
    /\ ppc \in {"none", "done", "loop"}
    /\ region_index < Len(MainRegions)
    /\ region_index' = region_index + 1
    /\ args' = [region |-> MainRegions[region_index + 1], start_date |-> MainStartDate,
                end_date |-> MainEndDate]
    /\ current_start_date' = Strptime(MainStartDate)
    /\ ppc' = "loop"
    /\ UNCHANGED <<mpc, EIA_API_KEY, conn, tables, current_end_date, requests, fetch>>

\* for region in regions: the call of fetch_and_store_data_for_range.
MainNextRegion ==
    /\ mpc = "run"
    /\ ppc \in {"none", "done"}
    /\ region_index < Len(MainRegions)
    /\ region_index' = region_index + 1
    /\ args' = [region |-> MainRegions[region_index + 1], start_date |-> MainStartDate,
                end_date |-> MainEndDate]
    /\ current_start_date' = Strptime(MainStartDate)
    /\ ppc' = "loop"
    /\ UNCHANGED <<mpc, EIA_API_KEY, conn, tables, current_end_date, requests, fetch>>

\* Mutant of MainReturn: main is left without __exit__ being run.
MainReturnLeavingOpen ==
    /\ mpc = "run"
    /\ \/ ppc = "raised"
       \/ ppc \in {"none", "done"} /\ region_index = Len(MainRegions)
    /\ mpc' = IF ppc = "raised" THEN "aborted" ELSE "done"
    /\ UNCHANGED <<region_index, EIA_API_KEY, conn, tables, ppc, args, current_start_date,
                   current_end_date, requests, fetch>>

\* The for loop is exhausted and main returns, or an exception has left
\* fetch_and_store_data_for_range and the handler of main returns.  Either
\* way the with block is left first: __exit__ closes the connection.
MainReturn ==
    /\ mpc = "run"
    /\ \/ ppc = "raised"
       \/ ppc \in {"none", "done"} /\ region_index = Len(MainRegions)
    /\ mpc' = IF ppc = "raised" THEN "aborted" ELSE "done"
    /\ conn' = IF conn # NULL THEN "closed" ELSE conn
    /\ UNCHANGED <<region_index, EIA_API_KEY, tables, ppc, args, current_start_date,
                   current_end_date, requests, fetch>>

\* main after initialize_database, on an empty database.
InitMain ==
    /\ InitDb
    /\ ppc = "none"
    /\ args = [region |-> "none", start_date |-> MainStartDate, end_date |-> MainEndDate]
    /\ current_start_date = 0
    /\ current_end_date = 0
    /\ requests = <<>>
    /\ fetch = "none"
    /\ mpc = "run"
    /\ region_index = 0
    /\ EIA_API_KEY = "key"
    /\ conn = "open"
    /\ tables = TRUE
    /\ dpc = "none"
    /\ dargs = [region |-> "none", start_time |-> <<2024, 1, 1, 0>>, end_time |-> <<2024, 1, 1, 0>>]
    /\ current_time = 0
    /\ next_time = 0
    /\ all_data = <<>>
    /\ drequests = <<>>
    /\ dfetch = "none"
    /\ run = 0
    /\ script = <<>>
    /\ firstRun = EmptyDb

\* main with a storage layer that may fail: in calculate_statistics, or at
\* the commit of store_data.
NextMain ==
    \/ taken > 0 /\ StoreCommitRaises /\ ChunkAdvance /\ UNCHANGED <<histVars, elseVars>>
    \/ RangeSteps(MainEntries(args.region))
    \/ \E fault \in AggFaults \ {"none"} :
          /\ taken > 0
          /\ StoreFinishWith(fault) /\ ChunkAdvance /\ UNCHANGED <<histVars, elseVars>>
    \/ MainNextRegion /\ UNCHANGED <<dbVars, callVars, demandVars, replayVars, histVars>>
    \/ MainReturn /\ UNCHANGED <<dbVars, callVars, demandVars, replayVars, histVars>>

\* Every blocking call returns or raises, so the run keeps taking steps.
SpecMain == InitMain /\ [][NextMain]_vars /\ WF_vars(NextMain)

\* ------------------------------------------------- the same range twice
\* fetch_and_store_data_for_range is run over one range, the connection is
\* closed, and it is run again over the same range on a new connection, the
\* API delivering for every chunk what it delivered the first time.
\* The records the API may deliver in run 1.
RepeatEntries ==
    { Entry("2024-01-01T00:00", "NE", "COL", "70", "MWh"),
      Entry("2024-01-01T00:00", "NE", "SUN", "10", "MWh"),
      Entry("2024-01-01T00:00", "NE", "SUN", "abc", "MWh"),
      Entry("2024-01-01T00:00", "NE", NULL, "10", "MWh") }

\* The entries delivered for the chunk of the last request.
Batch == script[Len(requests)]

\* A request: in run 1 it ends in any way and opens the record of its
\* chunk; in run 2 it delivers data exactly when it did in run 1.
RepeatFetch(result) ==
    /\ run \in {1, 2}
    /\ ChunkFetch(result)
    /\ IF run = 1
       THEN script' = Append(script, <<>>)
       ELSE /\ result = (IF script[Len(requests) + 1] = <<>> THEN "empty" ELSE "data")
            /\ UNCHANGED script
    /\ UNCHANGED <<run, firstRun>>

\* The for loop of store_data takes entry e: any entry in run 1, which is
\* recorded; the recorded one in run 2.
RepeatDelivers(e) ==
    /\ ppc = "store"
    /\ IF run = 1
       THEN /\ taken < MaxBatch
            /\ script' = [script EXCEPT ![Len(script)] = Append(@, e)]
       ELSE /\ taken < Len(Batch)
            /\ e = Batch[taken + 1]
            /\ UNCHANGED script
    /\ UNCHANGED <<run, firstRun>>

\* data is exhausted: in run 2 after the entries of run 1.
RepeatFinish ==
    /\ ppc = "store"
    /\ taken > 0
    /\ run = 2 => taken = Len(Batch)
    /\ StoreFinish
    /\ ChunkAdvance
    /\ UNCHANGED replayVars

\* Run 1 has returned: its connection is closed, which discards what it had
\* not committed, and run 2 starts on a new connection.
SecondRun ==
    /\ run = 1
    /\ ppc = "done"
    /\ run' = 2
    /\ firstRun' = committed
    /\ working' = committed
    /\ ppc' = "loop"
    /\ current_start_date' = Strptime(args.start_date)
    /\ requests' = <<>>
    /\ UNCHANGED <<committed, callVars, args, current_end_date, fetch, script>>

InitRepeat ==
    /\ InitDb
    /\ ppc = "loop"
    /\ args = [region |-> "NE", start_date |-> Strftime(0), end_date |-> Strftime(MaxSpan)]
    /\ current_start_date = Strptime(Strftime(0))
    /\ current_end_date = 0
    /\ requests = <<>>
    /\ fetch = "none"
    /\ mpc = "none"
    /\ region_index = 0
    /\ EIA_API_KEY = "key"
    /\ conn = NULL
    /\ tables = TRUE
    /\ dpc = "none"
    /\ dargs = [region |-> "none", start_time |-> <<2024, 1, 1, 0>>, end_time |-> <<2024, 1, 1, 0>>]
    /\ current_time = 0
    /\ next_time = 0
    /\ all_data = <<>>
    /\ drequests = <<>>
    /\ dfetch = "none"
    /\ run = 1
    /\ script = <<>>
    /\ firstRun = EmptyDb

NextRepeat ==
    \/ \E result \in FetchResults :
          RepeatFetch(result) /\ UNCHANGED <<mainVars, demandVars, histVars>>
    \/ \E e \in RepeatEntries :
          /\ RepeatDelivers(e) /\ StoreEntryStored(e)
          /\ UNCHANGED <<planVars, mainVars, demandVars, histVars>>
    \/ \E e \in RepeatEntries :
          /\ RepeatDelivers(e) /\ StoreEntrySkipped(e)
          /\ UNCHANGED <<planVars, mainVars, demandVars, histVars>>
    \/ \E e \in RepeatEntries :
          /\ RepeatDelivers(e) /\ StoreEntryRaises(e) /\ ChunkAdvance
          /\ UNCHANGED <<mainVars, demandVars, histVars>>
    \/ RepeatFinish /\ UNCHANGED <<mainVars, demandVars, histVars>>
    \/ RangeReturn /\ UNCHANGED <<elseVars, histVars>>
    \/ SecondRun /\ UNCHANGED <<mainVars, demandVars, histVars>>

SpecRepeat == InitRepeat /\ [][NextRepeat]_vars

\* ----------------------------------------------------------- the program
\* What os.getenv('EIA_API_KEY') can give: a key, the empty text, None.
KeyValues == {"key", "", NULL}

\* Mutant of ModuleLoad: the key is not checked.
ModuleLoadUnchecked ==
    /\ mpc = "import"
    /\ mpc' = "main"
    /\ UNCHANGED <<region_index, EIA_API_KEY, conn, tables>>

\* The module is loaded: `if not EIA_API_KEY: raise ValueError` ends the
\* program before main is called.
ModuleLoad ==
    /\ mpc = "import"
    /\ mpc' = IF EIA_API_KEY \in {NULL, ""} THEN "fatal" ELSE "main"
    /\ UNCHANGED <<region_index, EIA_API_KEY, conn, tables>>

\* with DatabaseConnection(...) as db: __enter__ connects, or sqlite3.Error
\* is raised again, the block is not entered and the handler of main returns.
MainConnect(ok) ==
    /\ mpc = "main"
    /\ IF ok THEN mpc' = "init" /\ conn' = "open"
             ELSE mpc' = "aborted" /\ UNCHANGED conn
    /\ UNCHANGED <<region_index, EIA_API_KEY, tables>>

\* How initialize_database can end: all statements and the commit run, the
\* first statement raises sqlite3.Error, or a later one does after a table
\* was created.
InitializeResults == {"ok", "first_raises", "later_raises"}

\* initialize_database(db); when it raises, the with block is left through
\* __exit__, which closes the connection, and the handler of main returns.
MainInitialize(result) ==
    /\ mpc = "init"
    /\ IF result = "ok" THEN mpc' = "run" /\ UNCHANGED conn
                        ELSE mpc' = "aborted" /\ conn' = "closed"
    /\ tables' = (result # "first_raises")
    /\ UNCHANGED <<region_index, EIA_API_KEY>>

\* An exception that neither get_energy_production_data nor store_data
\* handles (they handle every Exception: KeyboardInterrupt, SystemExit)
\* leaves fetch_and_store_data_for_range between two calls.
RangeRaises ==
    /\ ppc = "loop"
    /\ ppc' = "raised"
    /\ UNCHANGED <<args, current_start_date, current_end_date, requests, fetch>>

\* The program is started on a database file without tables.
InitProgram ==
    /\ InitDb
    /\ ppc = "none"
    /\ args = [region |-> "none", start_date |-> MainStartDate, end_date |-> MainEndDate]
    /\ current_start_date = 0
    /\ current_end_date = 0
    /\ requests = <<>>
    /\ fetch = "none"
    /\ mpc = "import"
    /\ region_index = 0
    /\ EIA_API_KEY \in KeyValues
    /\ conn = NULL
    /\ tables = FALSE
    /\ dpc = "none"
    /\ dargs = [region |-> "none", start_time |-> <<2024, 1, 1, 0>>, end_time |-> <<2024, 1, 1, 0>>]
    /\ current_time = 0
    /\ next_time = 0
    /\ all_data = <<>>
    /\ drequests = <<>>
    /\ dfetch = "none"
    /\ run = 0
    /\ script = <<>>
    /\ firstRun = EmptyDb

NextProgram ==
    \/ ModuleLoad /\ UNCHANGED <<dbVars, callVars, planVars, demandVars, replayVars, histVars>>
    \/ \E ok \in BOOLEAN :
          MainConnect(ok) /\ UNCHANGED <<dbVars, callVars, planVars, demandVars, replayVars, histVars>>
    \/ \E result \in InitializeResults :
          MainInitialize(result) /\ UNCHANGED <<dbVars, callVars, planVars, demandVars, replayVars, histVars>>
    \/ RangeRaises /\ UNCHANGED <<dbVars, callVars, elseVars, histVars>>
    \/ NextMain

SpecProgram == InitProgram /\ [][NextProgram]_vars

\* --------------------------------------- fetch_and_save_eia_demand_data
\* A datetime on the hour is the number of hours since 2024-01-01T00; a text
\* 'YYYY-MM-DDTHH' is <<year, month, day, hour>>.
\* datetime.strptime(text, "%Y-%m-%dT%H")
StrptimeHour(text) == 24 * Strptime(<<text[1], text[2], text[3]>>) + text[4]

\* datetime.strftime('%Y-%m-%dT%H')
StrftimeHour(time) == Strftime(time \div 24) \o <<time % 24>>

\* timedelta(days=5)
DemandWindowHours == 5 * 24

\* next_time: 5 days on, or end_time when that comes first.
NextTime(current, end) == Min(current + DemandWindowHours, end)

\* How the request of one chunk can end: requests.get, raise_for_status or
\* response.json() raises a RequestException; the body is JSON without
\* ['response']['data'] (a KeyError or TypeError); the record list is empty;
\* records are delivered.
DemandResults == {"request_exception", "malformed", "empty", "data"}

\* The times are parsed and the range is validated; start_time >= end_time
\* raises ValueError, which the outer handler turns into an empty frame.
DemandEnter ==
    /\ dpc = "start"
    /\ IF StrptimeHour(dargs.start_time) >= StrptimeHour(dargs.end_time)
       THEN dpc' = "failed" /\ UNCHANGED current_time
       ELSE dpc' = "loop" /\ current_time' = StrptimeHour(dargs.start_time)
    /\ all_data' = <<>>
    /\ UNCHANGED <<dargs, next_time, drequests, dfetch>>

\* One pass of the while loop.  Only a RequestException is handled inside
\* the loop; any other exception leaves the loop for the outer handler,
\* which returns an empty frame.
DemandFetch(result) ==
    /\ dpc = "loop"
    /\ current_time < StrptimeHour(dargs.end_time)
    /\ LET next == NextTime(current_time, StrptimeHour(dargs.end_time))
           request == [region |-> dargs.region, start |-> StrftimeHour(current_time),
                       end |-> StrftimeHour(next)]
       IN  /\ next_time' = next
           /\ drequests' = Append(drequests, request)
           /\ dfetch' = result
           /\ CASE result = "data" ->
                     /\ all_data' = Append(all_data, request)
                     /\ current_time' = next
                     /\ UNCHANGED dpc
                [] result \in {"empty", "request_exception"} ->
                     /\ current_time' = next
                     /\ UNCHANGED <<dpc, all_data>>
                [] result = "malformed" ->
                     /\ dpc' = "failed"
                     /\ UNCHANGED <<current_time, all_data>>
    /\ UNCHANGED dargs

\* The while condition fails: the frames are combined and returned.
DemandReturn ==
    /\ dpc = "loop"
    /\ ~(current_time < StrptimeHour(dargs.end_time))
    /\ dpc' = "done"
    /\ UNCHANGED <<dargs, current_time, next_time, all_data, drequests, dfetch>>

InitDemand ==
    /\ InitDb
    /\ ppc = "none"
    /\ args = [region |-> "none", start_date |-> Strftime(0), end_date |-> Strftime(0)]
    /\ current_start_date = 0
    /\ current_end_date = 0
    /\ requests = <<>>
    /\ fetch = "none"
    /\ mpc = "none"
    /\ region_index = 0
    /\ EIA_API_KEY = "key"
    /\ conn = NULL
    /\ tables = TRUE
    /\ dpc = "start"
    /\ \E r \in Regions, s \in 0..MaxDemandStart :
         \E e \in {t \in (s - 1)..(s + MaxDemandSpan) : t >= 0} :
            dargs = [region |-> r, start_time |-> StrftimeHour(s), end_time |-> StrftimeHour(e)]
    /\ current_time = 0
    /\ next_time = 0
    /\ all_data = <<>>
    /\ drequests = <<>>
    /\ dfetch = "none"
    /\ run = 0
    /\ script = <<>>
    /\ firstRun = EmptyDb

NextDemand ==
    \/ DemandEnter /\ UNCHANGED <<dbVars, callVars, planVars, mainVars, replayVars, histVars>>
    \/ \E result \in DemandResults :
          DemandFetch(result) /\ UNCHANGED <<dbVars, callVars, planVars, mainVars, replayVars, histVars>>
    \/ DemandReturn /\ UNCHANGED <<dbVars, callVars, planVars, mainVars, replayVars, histVars>>

\* Both window loops: either fetch_and_store_data_for_range or
\* fetch_and_save_eia_demand_data is called.
InitLoops == InitPlan \/ InitDemand

NextLoops == NextPlan \/ NextDemand

SpecLoops == InitLoops /\ [][NextLoops]_vars

\* ======================================================================
\* Claims
\* ======================================================================

\* The chunk of request i, as the days its two date texts stand for.
ChunkOf(i) == [start |-> Strptime(requests[i].start), end |-> Strptime(requests[i].end)]

\* C1: for start < end the chunks fetch_and_store_data_for_range requests
\* cover [start, end) exactly: the first starts at start, each next one
\* starts where the one before ended, none is empty or longer than 30 days,
\* none passes end, and when the function returns the last one ends at end.
C1_ChunksCoverRange ==
    LET start == Strptime(args.start_date)
        end == Strptime(args.end_date)
        n == Len(requests)
    IN  (ppc # "none" /\ start < end) =>
          /\ n >= 1 => ChunkOf(1).start = start
          /\ \A i \in 1..n :
                /\ ChunkOf(i).start < ChunkOf(i).end
                /\ ChunkOf(i).end - ChunkOf(i).start <= 30
                /\ ChunkOf(i).end <= end
          /\ \A i \in 1..(n - 1) : ChunkOf(i + 1).start = ChunkOf(i).end
          /\ ppc = "done" => (n >= 1 /\ ChunkOf(n).end = end)

\* C1 witness: a range of three chunks, the last shorter than 30 days, done.
C1_Witness ==
    /\ ppc = "done"
    /\ Len(requests) = 3
    /\ ChunkOf(3).end - ChunkOf(3).start < 30
    /\ ChunkOf(3).end = Strptime(args.end_date)

\* The rows of the table raw that carry the natural key k, with multiplicity.
RowsOfKey(raw, k) == CountRows({x \in Rows(raw) : RawKey(x) = k}, raw)

NoSharedKey(raw) == \A x \in Rows(raw) : RowsOfKey(raw, RawKey(x)) = 1

\* C2: whatever store_data calls have run or are running, with repeated keys
\* and failing entries, EnergyProduction never holds two rows with the same
\* (period, respondent, fuel_type), neither as committed nor as the
\* connection sees it inside the open transaction.
C2_NoTwoRowsShareKey == NoSharedKey(committed.raw) /\ NoSharedKey(working.raw)

\* C2 witness: a store_data call has returned whose batch overwrote a key
\* already stored and held an entry that was skipped, beside a second key.
C2_Witness ==
    /\ pc = "idle" /\ lastOp = "store" /\ ret = "True"
    /\ replaced # {}
    /\ skipped > 0
    /\ Cardinality(Rows(committed.raw)) = 2

\* C3: when a store_data call that committed has written an entry whose key
\* was already there with another value (from an earlier call or earlier in
\* the same batch), the committed table holds exactly one row for that key,
\* and its value and units are those of the last entry written for it.
C3_UpsertKeepsLatest ==
    (pc = "idle" /\ lastOp = "store" /\ ret = "True") =>
        \A k \in replaced :
            /\ RowsOfKey(committed.raw, k) = 1
            /\ \A x \in Rows(committed.raw) :
                  RawKey(x) = k => /\ x.value = expect[k].value
                                   /\ x.units = expect[k].units

\* C3 witness: the first call's batch holds the same key twice, 10 MWh and
\* then 20 kWh, and has committed.
C3_Witness ==
    /\ pc = "idle" /\ lastOp = "store" /\ ret = "True" /\ calls = 1
    /\ replaced # {}
    /\ \E x \in Rows(committed.raw) : x.value = 20 /\ x.units = "kWh"

\* C4 (as claimed): when store_data returns, every entry of the batch has
\* been taken, each one that could be stored is committed, and the call did
\* not fail, whatever entry of the batch failed on its own.
C4_BadEntryNeverAborts ==
    (pc = "idle" /\ lastOp = "store") =>
        /\ ret = "True"
        /\ unprocessed = 0
        /\ \A k \in DOMAIN expect : BagIn(expect[k], committed.raw)

\* A step that is a whole run of calculate_statistics for region E: the call
\* on its own, or the call store_data makes after its commit.
AggregatorRuns(E) ==
    \/ pc = "idle" /\ pc' = "idle" /\ calls' = calls + 1 /\ region' = E
    \/ pc = "store" /\ pc' = "idle" /\ ret' = "True" /\ stored_count > 0 /\ region = E

\* The last call completed was a run of calculate_statistics for E that
\* committed.
AggregatorCommitted(E) ==
    /\ pc = "idle" /\ region = E /\ outcome = "committed"
    /\ lastOp = "agg" \/ (lastOp = "store" /\ ret = "True")

RECURSIVE SumOf(_)
SumOf(S) ==
    IF S = {} THEN 0
    ELSE LET r == CHOOSE x \in S : TRUE IN r.value + SumOf(S \ {r})

\* The EnergyProduction rows of entity E in the group (date, category).
GroupOf(raw, E, date, fuel) ==
    {r \in Rows(raw) : r.respondent = E /\ DateOf(r.period) = date /\ r.fuel_type = fuel}

\* C6: after a run of calculate_statistics for E that committed, every
\* (date, category) group of E's EnergyProduction rows has exactly one
\* DailyGeneration row keyed (date, E, category), whose total is the sum,
\* peak the maximum and average the mean of the group's values; and
\* DailyGeneration has no row of E for a group EnergyProduction lacks.
C6_DailyRollupIsSumMaxMean ==
    \A E \in Regions :
      AggregatorCommitted(E) =>
        /\ \A r \in OfRespondent(committed.raw, E) :
             LET g == GroupOf(committed.raw, E, DateOf(r.period), r.fuel_type)
                 rows == {d \in Rows(committed.daily) :
                            DailyKey(d) = <<DateOf(r.period), E, r.fuel_type>>}
             IN  /\ Cardinality(rows) = 1
                 /\ \A d \in rows :
                      /\ CopiesIn(d, committed.daily) = 1
                      /\ d.total_mwh = SumOf(g)
                      /\ \E x \in g : x.value = d.peak_mwh
                      /\ \A x \in g : x.value <= d.peak_mwh
                      /\ d.average_mwh # NoReal
                      /\ d.average_mwh[1] * Cardinality(g) = SumOf(g) * d.average_mwh[2]
        /\ \A d \in Rows(committed.daily) :
             d.respondent = E => GroupOf(committed.raw, E, d.date, d.fuel_type) # {}

\* C6 witness: a run for NE has committed with two categories on 2024-01-01,
\* one of them a group of two hours (SUN 10 and 20: total 30, peak 20, mean 15).
C6_Witness ==
    /\ AggregatorCommitted("NE")
    /\ \E d \in Rows(committed.daily) :
          /\ d.fuel_type = "SUN" /\ d.total_mwh = 30 /\ d.peak_mwh = 20
          /\ RealIs(d.average_mwh, 15)
    /\ \E d \in Rows(committed.daily) : d.fuel_type # "SUN"

\* Exact arithmetic on REAL values kept as <<numerator, denominator>>.
Abs(n) == IF n < 0 THEN -n ELSE n

RECURSIVE Gcd(_, _)
Gcd(a, b) == IF b = 0 THEN a ELSE Gcd(b, a % b)

\* q in lowest terms with a positive denominator.
Reduce(q) ==
    LET g == Gcd(Abs(q[1]), Abs(q[2]))
        sgn == IF q[2] < 0 THEN -1 ELSE 1
    IN  <<sgn * (q[1] \div g), sgn * (q[2] \div g)>>

RatAdd(a, b) == Reduce(<<a[1] * b[2] + b[1] * a[2], a[2] * b[2]>>)

\* The six tracked-category percentage columns of a RegionalStats row.
TrackedPercentages(row) ==
    <<row.coal_percentage, row.gas_percentage, row.nuclear_percentage,
      row.solar_percentage, row.wind_percentage, row.hydro_percentage>>

\* All percentage columns of a RegionalStats row.
AllPercentages(row) ==
    {TrackedPercentages(row)[i] : i \in 1..6} \cup {row.renewable_percentage}

TrackedAddUpTo100(row) ==
    LET p == TrackedPercentages(row)
    IN  /\ \A i \in 1..6 : p[i] # NoReal
        /\ RatAdd(RatAdd(RatAdd(Reduce(p[1]), Reduce(p[2])), RatAdd(Reduce(p[3]), Reduce(p[4]))),
                  RatAdd(Reduce(p[5]), Reduce(p[6]))) = <<100, 1>>

\* The EnergyProduction rows behind the RegionalStats key (respondent, date).
RegionalGroup(raw, E, date) ==
    {r \in Rows(raw) : r.respondent = E /\ DateOf(r.period) = date}

\* C7 (as claimed): in every RegionalStats row with total_generation_mwh > 0
\* the coal, gas, nuclear, solar, wind and hydro percentages add up to 100,
\* whatever rows store_data has written for that date and entity.
C7_TrackedSumIs100 ==
    \A row \in Rows(committed.regional) :
        row.total_generation_mwh > 0 => TrackedAddUpTo100(row)

\* C7 (amended): in every RegionalStats row with total_generation_mwh > 0
\* whose EnergyProduction rows of that date and entity all carry one of the
\* six tracked categories, the six percentages add up to 100.
C7_TrackedSumIs100WhenAllTracked ==
    \A row \in Rows(committed.regional) :
        ( /\ row.total_generation_mwh > 0
          /\ \A r \in RegionalGroup(committed.raw, row.respondent, row.date) :
                r.fuel_type \in TrackedFuels )
        => TrackedAddUpTo100(row)

\* C7 witness: a committed row over two tracked categories, SUN 10 + 20 and
\* COL -10, total 20: solar 150 and coal -50 add up to 100.
C7_Witness ==
    \E row \in Rows(committed.regional) :
        /\ row.total_generation_mwh > 0
        /\ \A r \in RegionalGroup(committed.raw, row.respondent, row.date) :
              r.fuel_type \in TrackedFuels
        /\ ~RealIs(row.solar_percentage, 0)
        /\ ~RealIs(row.coal_percentage, 0)
        /\ TrackedAddUpTo100(row)

\* The (date, entity) groups of E in raw whose values sum to 0.
ZeroTotalDates(raw, E) ==
    {DateOf(r.period) : r \in {x \in OfRespondent(raw, E) :
                                 SumOf(RegionalGroup(raw, E, DateOf(x.period))) = 0}}

\* C8: when calculate_statistics runs for E and the values of one of E's
\* (date, entity) groups sum to 0 (every period of E having a date), the run
\* commits: RegionalStats holds for that group one row with total 0 and every
\* percentage NULL, and DailyGeneration holds a row for each (date, category)
\* group of E.
C8_ZeroTotalGivesNullNotFault ==
    [][ \A E \in Regions :
          ( /\ AggregatorRuns(E)
            /\ ZeroTotalDates(working.raw, E) # {}
            /\ \A r \in OfRespondent(working.raw, E) : DateOf(r.period) # NULL )
          => /\ outcome' = "committed"
             /\ \A date \in ZeroTotalDates(working.raw, E) :
                  LET rows == {x \in Rows(committed'.regional) :
                                 RegionalKey(x) = <<E, date>>}
                  IN  /\ Cardinality(rows) = 1
                      /\ \A x \in rows :
                           /\ x.total_generation_mwh = 0
                           /\ \A q \in AllPercentages(x) : q = NoReal
             /\ \A r \in OfRespondent(working.raw, E) :
                  \E d \in Rows(committed'.daily) :
                     DailyKey(d) = <<DateOf(r.period), E, r.fuel_type>> ]_vars

\* C8 witness: a run for NE has committed a RegionalStats row with total 0
\* made of SUN 10 and COL -10, every percentage NULL, and the DailyGeneration
\* rows of both categories.
C8_Witness ==
    /\ AggregatorCommitted("NE")
    /\ \E x \in Rows(committed.regional) :
          /\ x.total_generation_mwh = 0
          /\ x.date = "2024-01-01"
          /\ \A q \in AllPercentages(x) : q = NoReal
    /\ \E d \in Rows(committed.daily) : d.fuel_type = "SUN" /\ d.total_mwh = 10
    /\ \E d \in Rows(committed.daily) : d.fuel_type = "COL" /\ d.total_mwh = -10

ScenarioRows ==
    {<<r.fuel_type, r.value>> : r \in RegionalGroup(committed.raw, "NE", "2024-01-01")}

\* C10: after a run of calculate_statistics for NE that committed, when the
\* EnergyProduction rows of NE on 2024-01-01 are SUN = 10, WND = 20 and
\* COL = 70 and no other, RegionalStats holds one row (NE, 2024-01-01) with
\* total 100, solar 10, wind 20, coal 70, renewable 30, gas, nuclear, hydro 0.
C10_ScenarioPercentages ==
    ( /\ AggregatorCommitted("NE")
      /\ ScenarioRows = {<<"SUN", 10>>, <<"WND", 20>>, <<"COL", 70>>}
      /\ Cardinality(RegionalGroup(committed.raw, "NE", "2024-01-01")) = 3 )
    => LET rows == {x \in Rows(committed.regional) :
                      RegionalKey(x) = <<"NE", "2024-01-01">>}
       IN  /\ Cardinality(rows) = 1
           /\ \A x \in rows :
                /\ CopiesIn(x, committed.regional) = 1
                /\ x.total_generation_mwh = 100
                /\ RealIs(x.solar_percentage, 10)
                /\ RealIs(x.wind_percentage, 20)
                /\ RealIs(x.coal_percentage, 70)
                /\ RealIs(x.renewable_percentage, 30)
                /\ RealIs(x.gas_percentage, 0)
                /\ RealIs(x.nuclear_percentage, 0)
                /\ RealIs(x.hydro_percentage, 0)

\* C10 witness: the scenario's three rows are stored, beside a row of another
\* date, and a run for NE has committed its RegionalStats row.
C10_Witness ==
    /\ AggregatorCommitted("NE")
    /\ ScenarioRows = {<<"SUN", 10>>, <<"WND", 20>>, <<"COL", 70>>}
    /\ \E r \in Rows(committed.raw) : DateOf(r.period) = "2024-01-02"
    /\ \E x \in Rows(committed.regional) :
          RegionalKey(x) = <<"NE", "2024-01-01">> /\ x.total_generation_mwh = 100

\* C11: in fetch_and_store_data_for_range the steps of a chunk run in the
\* order fetch, store_data, calculate_statistics, and are gated: store_data
\* is entered only by the pass whose request returned entries; the tables
\* are written only inside store_data; calculate_statistics runs exactly
\* when that store_data call committed with stored_count > 0.  A request
\* that ends without entries (HTTP 500 among them) writes nothing, runs
\* neither, and leaves the loop at the start of the next chunk.
C11_FetchStoreAggregateGated ==
    [][ /\ (pc = "idle" /\ pc' = "store")
            => (Len(requests') = Len(requests) + 1 /\ fetch' = "data")
        /\ (Len(requests') > Len(requests) /\ fetch' # "data")
            => /\ committed' = committed /\ working' = working
               /\ pc' = "idle" /\ outcome' = outcome /\ lastOp' = lastOp
               /\ ppc' = "loop" /\ current_start_date' = current_end_date'
        /\ (committed' # committed \/ working' # working) => pc = "store"
        /\ (committed'.daily # committed.daily \/ committed'.regional # committed.regional)
            => (pc' = "idle" /\ ret' = "True" /\ stored_count > 0)
        /\ (pc = "store" /\ pc' = "idle")
            => (outcome' # "none" <=> (ret' = "True" /\ stored_count > 0)) ]_vars

\* C11 witness: the first chunk's request got a status other than 200, the
\* second returned entries; store_data stored one and calculate_statistics
\* committed.
C11_Witness ==
    /\ Len(requests) = 2 /\ prevFetch = "status" /\ fetch = "data"
    /\ pc = "idle" /\ lastOp = "store" /\ ret = "True" /\ outcome = "committed"
    /\ committed.regional # EmptyBag

\* A step in which get_energy_production_data is called.
FetcherCalled == ppc = "loop" /\ fetch' \in FetchResults /\ requests' # requests

\* C12: every call of get_energy_production_data issues exactly one request;
\* when the status is not 200 or the request raises, the caller gets the
\* empty list and no exception (the loop goes on to the next chunk without
\* store_data), and no chunk is ever requested a second time.
C12_OneRequestEmptyOnFailure ==
    /\ [][ FetcherCalled =>
             /\ Len(requests') = Len(requests) + 1
             /\ fetch' \in {"status", "exception"} =>
                  /\ ppc' = "loop" /\ pc' = "idle"
                  /\ current_start_date' = current_end_date'
                  /\ UNCHANGED <<dbVars, callVars>> ]_vars
    /\ [](\A i, j \in 1..Len(requests) : requests[i] = requests[j] => i = j)

\* C12 witness: two chunks in a row failed, the first by an exception of the
\* request, the second by its status; two different requests were issued and
\* the loop stands at the third chunk.
C12_Witness ==
    /\ Len(requests) = 2 /\ prevFetch = "exception" /\ fetch = "status"
    /\ requests[1].end = requests[2].start
    /\ ppc = "loop" /\ current_start_date < Strptime(args.end_date)
    /\ committed = EmptyDb

\* C13: when the response has status 200 but no ['response']['data'], the
\* caller gets the empty list and no exception, and the pass ends as the
\* pass of a chunk without data does: nothing but the loop's position, the
\* request log and the fetch result changes.
C13_MalformedIsEmpty ==
    [][ (FetcherCalled /\ fetch' = "malformed") =>
          /\ ppc' = "loop" /\ pc' = "idle"
          /\ current_end_date' = ChunkEnd(current_start_date, Strptime(args.end_date))
          /\ current_start_date' = current_end_date'
          /\ UNCHANGED <<dbVars, callVars, args>> ]_vars

\* C13 witness: the only chunk of a range got a malformed response and the
\* function has returned, the tables empty.
C13_Witness ==
    /\ Len(requests) = 1 /\ fetch = "malformed" /\ ppc = "done"
    /\ current_start_date = Strptime(args.end_date)
    /\ committed = EmptyDb /\ working = EmptyDb

\* The requests a complete run of main issues: for every region in turn, the
\* 30-day chunks of the range in order, the last one cut at the end date.
PlannedRequests ==
    LET n == (MainSpanDays + 29) \div 30
    IN  [j \in 1..(Len(MainRegions) * n) |->
           LET r == ((j - 1) \div n) + 1
               i == ((j - 1) % n) + 1
           IN  [region |-> MainRegions[r], start |-> Strftime(30 * (i - 1)),
                end |-> Strftime(Min(30 * i, MainSpanDays))]]

\* C14: whatever the requests, the parsing, store_data and
\* calculate_statistics fail with, a run of main reaches completion, and
\* by then it has requested every chunk of every region exactly once, in
\* order; it never aborts and never requests anything else.
C14_EveryChunkOnceThenCompletion ==
    /\ <>(mpc = "done")
    /\ [](mpc # "aborted")
    /\ [](/\ Len(requests) <= Len(PlannedRequests)
          /\ requests = SubSeq(PlannedRequests, 1, Len(requests)))
    /\ [](mpc = "done" => requests = PlannedRequests)

\* A completed run whose last request raised, whose request before that had
\* a malformed body, whose last store_data returned False, and which has
\* stored data all the same.
C14_Witness ==
    /\ mpc = "done"
    /\ requests = PlannedRequests
    /\ fetch = "exception"
    /\ prevFetch = "malformed"
    /\ ret = "False"
    /\ committed.raw # EmptyBag

\* calculate_statistics, called by store_data in a run of main, ends in its
\* exception handler.
AggregatorFailsInRun == mpc = "run" /\ pc = "store" /\ pc' = "idle" /\ outcome' = "rolled_back"

\* C15: when calculate_statistics fails part-way in a run of main,
\* DailyStats and RegionalStats are as before the run of the aggregator, on
\* the connection and as committed; every EnergyProduction row that
\* store_data committed before calling it is committed with its value;
\* store_data returns True and the loop goes on with the next chunk, main
\* with the next region.
C15_AggregatorFailureRollsBack ==
    /\ [][AggregatorFailsInRun =>
            /\ committed'.daily = committed.daily /\ working'.daily = working.daily
            /\ committed'.regional = committed.regional /\ working'.regional = working.regional
            /\ committed.daily = working.daily /\ committed.regional = working.regional
            /\ committed'.raw = working.raw /\ working'.raw = working.raw
            /\ \A row \in Rows(committed.raw) :
                  \E kept \in Rows(committed'.raw) : RawKey(kept) = RawKey(row)
            /\ ret' = "True"
            /\ ppc' = "loop" /\ current_start_date' = current_end_date
            /\ mpc' = "run"]_vars
    /\ [](mpc # "aborted" /\ ppc # "raised")

\* calculate_statistics has failed for the first region on a database whose
\* derived tables held rows of an earlier run, and the run has gone on to
\* the next region.
C15_Witness ==
    /\ outcome = "rolled_back"
    /\ committed.daily # EmptyBag
    /\ committed.regional # EmptyBag
    /\ committed.raw # EmptyBag
    /\ region_index = 2
    /\ region = MainRegions[1]

\* The keys whose row the last store_data call wrote and that are durable
\* now without having been durable with that row when the call began.
MadeDurable ==
    {k \in DOMAIN expect :
        BagIn(expect[k], committed.raw) /\ ~BagIn(expect[k], rawAtBegin)}

\* C16 (as claimed): what a store_data call wrote becomes durable only once
\* the call has taken every entry of its batch, and then all of it at once:
\* no row of a batch is committed while entries of that batch are unprocessed.
C16_CommittedOnlyAfterWholeBatch ==
    MadeDurable # {} =>
        /\ pc = "idle"
        /\ unprocessed = 0
        /\ \A k \in DOMAIN expect : BagIn(expect[k], committed.raw)

\* C17 (as claimed): store_data returns True exactly when its commit
\* succeeded; it returns False only when the transaction itself failed.
C17_FalseOnlyOnTransactionFailure ==
    (pc = "idle" /\ lastOp = "store") => (ret = "False" <=> txFailed)

\* The chunk of request i of the demand download, in hours.
DemandChunkOf(i) ==
    [start |-> StrptimeHour(drequests[i].start), end |-> StrptimeHour(drequests[i].end)]

\* C18: both window loops follow chunk_end = min(chunk_start + max_window,
\* end) with each chunk starting where the one before ended, and for
\* start < end a loop that has stopped has chunk_start = end: it never stops
\* earlier and never steps past end.
C18_LoopStopsExactlyAtEnd ==
    /\ LET start == Strptime(args.start_date)
           end == Strptime(args.end_date)
           n == Len(requests)
       IN  (ppc # "none" /\ start < end) =>
             /\ \A i \in 1..n :
                   /\ ChunkOf(i).start = (IF i = 1 THEN start ELSE ChunkOf(i - 1).end)
                   /\ ChunkOf(i).end = Min(ChunkOf(i).start + 30, end)
             /\ current_start_date <= end
             /\ ppc = "done" => current_start_date = end
    /\ LET start == StrptimeHour(dargs.start_time)
           end == StrptimeHour(dargs.end_time)
           n == Len(drequests)
       IN  (dpc \notin {"none", "start"} /\ start < end) =>
             /\ \A i \in 1..n :
                   /\ DemandChunkOf(i).start = (IF i = 1 THEN start ELSE DemandChunkOf(i - 1).end)
                   /\ DemandChunkOf(i).end = Min(DemandChunkOf(i).start + 120, end)
             /\ current_time <= end
             /\ dpc \in {"done", "failed"} => current_time = end

\* fetch_and_store_data_for_range was called with start >= end.
DegenerateRange ==
    ppc # "none" /\ Strptime(args.start_date) >= Strptime(args.end_date)

\* C19: called with start >= end, fetch_and_store_data_for_range issues no
\* request, enters neither store_data nor calculate_statistics, writes no
\* table and raises nothing: the while condition is false at once and the
\* only step taken is the return.
C19_DegenerateRangeIsEmpty ==
    /\ [](DegenerateRange =>
            /\ requests = <<>> /\ fetch = "none"
            /\ pc = "idle" /\ calls = 0 /\ lastOp = "init"
            /\ committed = EmptyDb /\ working = EmptyDb
            /\ ppc \in {"loop", "done"}
            /\ ~WhileCondition(current_start_date, Strptime(args.end_date)))
    /\ [][DegenerateRange => (ppc = "loop" /\ ppc' = "done")]_vars

\* C19 witness: the call with start one day after end has returned.
C19_Witness ==
    /\ ppc = "done"
    /\ Strptime(args.start_date) > Strptime(args.end_date)
    /\ requests = <<>>

\* The (start, end) date texts of the requests issued so far.
RequestedChunks == [i \in 1..Len(requests) |-> <<requests[i].start, requests[i].end>>]

\* C20: for start 2024-01-01 and end 2024-03-02 the requests are, in this
\* order, [2024-01-01, 2024-01-31), [2024-01-31, 2024-03-01) and
\* [2024-03-01, 2024-03-02): all three when the function has returned, a
\* prefix of them before.
C20_ScenarioChunks ==
    LET chunks == << <<<<2024, 1, 1>>, <<2024, 1, 31>>>>,
                     <<<<2024, 1, 31>>, <<2024, 3, 1>>>>,
                     <<<<2024, 3, 1>>, <<2024, 3, 2>>>> >>
    IN  (ppc # "none" /\ args.start_date = <<2024, 1, 1>> /\ args.end_date = <<2024, 3, 2>>)
        => /\ Len(requests) <= 3
           /\ RequestedChunks = SubSeq(chunks, 1, Len(requests))
           /\ ppc = "done" => Len(requests) = 3

\* C20 witness: the call for 2024-01-01 .. 2024-03-02 has returned after
\* three requests.
C20_Witness ==
    /\ ppc = "done"
    /\ args.start_date = <<2024, 1, 1>> /\ args.end_date = <<2024, 3, 2>>
    /\ Len(requests) = 3
    /\ requests[3].end = <<2024, 3, 2>>

\* The position of region r in the list main works through.
RegionIndexOf(r) == CHOOSE k \in 1..Len(MainRegions) : MainRegions[k] = r

\* C21: in a run of main the regions are taken one at a time in the order
\* of the list and the chunks of a region in strictly increasing time
\* order; the first chunk of a region is requested only after the last chunk
\* of the region before was requested and its pass of the loop has ended;
\* a request is issued only while neither store_data nor
\* calculate_statistics is running, and these run only inside the pass of
\* the chunk that delivered their data.
C21_OneAtATimeInOrder ==
    /\ [](\A i \in 1..(Len(requests) - 1) :
            LET a == requests[i]
                b == requests[i + 1]
            IN  \/ /\ a.region = b.region
                   /\ Strptime(a.start) < Strptime(b.start)
                   /\ Strptime(a.end) <= Strptime(b.start)
                \/ /\ RegionIndexOf(b.region) = RegionIndexOf(a.region) + 1
                   /\ a.end = MainEndDate
                   /\ b.start = MainStartDate)
    /\ []((pc = "store") <=> (ppc = "store"))
    /\ [][requests' # requests =>
            /\ pc = "idle" /\ ppc = "loop"
            /\ Len(requests') = Len(requests) + 1
            /\ requests'[Len(requests')].region = MainRegions[region_index]]_vars
    /\ [][region_index' # region_index =>
            /\ region_index' = region_index + 1
            /\ pc = "idle" /\ ppc \in {"none", "done"}
            /\ region_index > 0 =>
                  /\ current_start_date = Strptime(args.end_date)
                  /\ requests # <<>>
                  /\ requests[Len(requests)].end = args.end_date]_vars

\* C21 witness: the second region is inside store_data for its second
\* chunk, after all chunks of the first region, the rows of which are
\* aggregated.
C21_Witness ==
    /\ region_index = 2
    /\ pc = "store"
    /\ Len(requests) = ((MainSpanDays + 29) \div 30) + 2
    /\ requests[Len(requests)].region = MainRegions[2]
    /\ committed.regional # EmptyBag

\* The key is missing: os.getenv gave None or the empty text.
KeyMissing == EIA_API_KEY \in {NULL, ""}

\* C22: with EIA_API_KEY missing the program ends at the check of the key:
\* main is never entered, no request is issued, no connection is opened, no
\* table is created or written.  With the key present the run is aborted
\* only before the first region (the connection or initialize_database
\* fails) or by an exception that is not a failure of a request, of
\* store_data or of calculate_statistics: the step that raises it issues no
\* request and leaves the tables and both functions' state alone.
C22_MissingKeyIsFatalNothingElse ==
    /\ [](KeyMissing =>
            /\ mpc \in {"import", "fatal"}
            /\ requests = <<>> /\ fetch = "none"
            /\ conn = NULL /\ ~tables
            /\ committed = EmptyDb /\ working = EmptyDb
            /\ region_index = 0 /\ ppc = "none" /\ pc = "idle" /\ calls = 0)
    /\ [][(KeyMissing /\ mpc = "import") => mpc' = "fatal"]_vars
    /\ [](~KeyMissing => mpc # "fatal")
    /\ [][(mpc # "aborted" /\ mpc' = "aborted") =>
            \/ mpc \in {"main", "init"} /\ region_index = 0 /\ requests = <<>>
            \/ ppc = "raised"]_vars
    /\ [][(ppc # "raised" /\ ppc' = "raised") =>
            /\ pc = "idle"
            /\ UNCHANGED <<dbVars, callVars, requests, fetch>>]_vars

\* C22 witness: the program has ended at the check of a missing key.
C22_Witness ==
    /\ EIA_API_KEY = NULL
    /\ mpc = "fatal"
    /\ requests = <<>>
    /\ ~tables

RawKeys(db) == {RawKey(x) : x \in Rows(db.raw)}

DailyKeys(db) == {DailyKey(x) : x \in Rows(db.daily)}

RegionalKeys(db) == {RegionalKey(x) : x \in Rows(db.regional)}

\* C23: in a run of main no step removes a committed key: the keys of
\* EnergyProduction, DailyGeneration and RegionalStats as committed before
\* a step are all among those committed after it.
C23_CommittedKeysOnlyGrow ==
    [][/\ RawKeys(committed) \subseteq RawKeys(committed')
       /\ DailyKeys(committed) \subseteq DailyKeys(committed')
       /\ RegionalKeys(committed) \subseteq RegionalKeys(committed')]_vars

\* C23 witness: the run is complete with rows of both regions committed in
\* all three tables, the row of the first region with the value of a
\* replacement.
C23_Witness ==
    /\ mpc = "done"
    /\ \A k \in 1..2 :
          /\ \E x \in Rows(committed.raw) : x.respondent = MainRegions[k]
          /\ \E x \in Rows(committed.daily) : x.respondent = MainRegions[k]
          /\ \E x \in Rows(committed.regional) : x.respondent = MainRegions[k]
    /\ \E x \in Rows(committed.raw) : x.respondent = MainRegions[1] /\ x.value = 20

\* What calculate_statistics for region E writes into empty derived tables
\* from the EnergyProduction rows committed in db.
FreshAggregation(db, E) ==
    CalculateStatistics([db EXCEPT !.daily = EmptyBag, !.regional = EmptyBag],
                        [db EXCEPT !.daily = EmptyBag, !.regional = EmptyBag], E, "none").committed

\* C24: whenever fetch_and_store_data_for_range for region E is between two
\* chunks or has returned, and no calculate_statistics has failed, the
\* committed DailyGeneration and RegionalStats rows of E are those one
\* aggregation from empty derived tables over the committed EnergyProduction
\* rows would write.
C24_DerivedEqualFreshAggregation ==
    (ppc \in {"loop", "done"} /\ outcome # "rolled_back") =>
        LET E == args.region
            fresh == FreshAggregation(committed, E)
        IN  /\ {x \in Rows(committed.daily) : x.respondent = E} = Rows(fresh.daily)
            /\ {x \in Rows(committed.regional) : x.respondent = E} = Rows(fresh.regional)

\* C27: after a store_data that returned False, none of the rows it wrote
\* before the failure is committed in EnergyProduction, unless the same row
\* was committed before the call: not when it returns and not after a later
\* call has committed on the connection.
C27_FailedStoreLeavesNothing ==
    (pc = "idle" /\ ret = "False") =>
        \A k \in DOMAIN expect :
            BagIn(expect[k], committed.raw) => BagIn(expect[k], rawAtBegin)

\* C25: when the second run over the same range, with the API delivering
\* the same records, has returned, EnergyProduction, DailyGeneration and
\* RegionalStats hold as committed the rows, keys and values, they held
\* after the first run, and no two EnergyProduction rows share a key.
C25_SecondRunSameTables ==
    (run = 2 /\ ppc = "done") =>
        /\ committed = firstRun
        /\ NoSharedKey(committed.raw)

\* The hours (periods) of E's EnergyProduction rows on a date, and E's
\* generation in one of them, summed across categories.
HoursOf(raw, E, date) == {r.period : r \in RegionalGroup(raw, E, date)}

HourTotal(raw, E, date, hour) ==
    SumOf({r \in RegionalGroup(raw, E, date) : r.period = hour})

\* C26: after a run of calculate_statistics for E that committed, in every
\* RegionalStats row of E peak_hour_mwh is the largest and
\* average_hourly_mwh the mean of E's hourly totals (generation of one hour
\* summed across categories) over the hours of the row's date.
C26_PeakAndMeanOfHourlyTotals ==
    \A E \in Regions :
      AggregatorCommitted(E) =>
        \A row \in Rows(committed.regional) :
          row.respondent = E =>
            LET hours == HoursOf(committed.raw, E, row.date)
                Of(h) == HourTotal(committed.raw, E, row.date, h)
            IN  /\ \E h \in hours : Of(h) = row.peak_hour_mwh
                /\ \A h \in hours : Of(h) <= row.peak_hour_mwh
                /\ row.average_hourly_mwh # NoReal
                /\ row.average_hourly_mwh[1] * Cardinality(hours)
                     = row.total_generation_mwh * row.average_hourly_mwh[2]

\* A request has been issued and has delivered nothing: it raised, had a
\* status other than 200, a body without the expected structure, or an
\* empty list of records.
FetchedNothing ==
    /\ requests' # requests
    /\ fetch' \in {"exception", "status", "malformed", "empty"}

\* C28: the pass of the loop for a chunk whose request delivered nothing
\* leaves EnergyProduction, DailyGeneration and RegionalStats as they were,
\* as committed and as the connection sees them (rows pending stay
\* pending); neither store_data nor calculate_statistics is called; what
\* changes is the request issued and the position of the loop, which is at
\* the start of the next chunk.
C28_EmptyChunkChangesNothing ==
    [][FetchedNothing =>
         /\ committed' = committed
         /\ working' = working
         /\ UNCHANGED <<callVars, args, mainVars>>
         /\ ppc = "loop" /\ ppc' = "loop"
         /\ current_start_date' = Min(current_start_date + 30, Strptime(args.end_date))
         /\ current_start_date' = current_end_date']_vars

\* C28 witness: a request with a malformed body has just been passed over
\* while rows of an abandoned store_data were pending beside committed ones.
C28_Witness ==
    /\ fetch = "malformed"
    /\ ppc = "loop" /\ pc = "idle"
    /\ current_start_date = current_end_date
    /\ committed.raw # EmptyBag
    /\ working.raw # committed.raw
    /\ committed.regional # EmptyBag

\* What fetch_and_save_eia_demand_data returns: the chunks of all_data
\* combined when the loop ran to its end, an empty frame from the outer
\* handler.
ReturnedFrame == IF dpc = "done" THEN all_data ELSE <<>>

\* C30: when fetch_and_save_eia_demand_data has ended for a range with
\* start < end, every 5-day chunk of the range was requested, whichever of
\* them failed by a transport error or by a malformed response, and the
\* result holds the records of every chunk that delivered some.
C30_FailedChunkIsEmptyChunk ==
    LET start == StrptimeHour(dargs.start_time)
        end == StrptimeHour(dargs.end_time)
    IN  (dpc \in {"done", "failed"} /\ start < end) =>
          /\ Len(drequests) = (end - start + 119) \div 120
          /\ drequests[Len(drequests)].end = dargs.end_time
          /\ ReturnedFrame = all_data

====
